---------------------------- MODULE Spec2Model ----------------------------
(***************************************************************************)
(* A model of c2j (src/index.js): CsvMapper.build, which folds the rows of *)
(* one or more CSV sources into a key -> value object, and the command     *)
(* line entry point that calls it.                                         *)
(*                                                                         *)
(* JavaScript values are tagged records.  A string is a sequence of        *)
(* tokens (a token is a run of characters that the program never splits,   *)
(* "," and "\n" are tokens of their own), so that concatenation, comma     *)
(* splitting and the search for a newline are computed, not assumed.       *)
(* An object carries its own properties and its prototype, and property    *)
(* reads and writes follow the prototype rules of the language.            *)
(*                                                                         *)
(* The CSV parser (csv-parse) and the byte streams are the environment:    *)
(* a parser emits the rows of its source in order, may report one error    *)
(* at any point, and signals 'finish' either after its last row or after   *)
(* an error (an error raised while flushing is followed by 'finish');      *)
(* after 'finish' it emits nothing.  After an error it may still emit      *)
(* rows.  A byte stream may fail at any time after it has been resolved.   *)
(***************************************************************************)
EXTENDS Integers, Sequences, FiniteSets, TLC

VARIABLES
    pc,             \* "main" (run as a script), "require" (loaded as a library),
                    \* "kv" (key/value functions applied alone), "running", "done"
    argv,           \* the command line, or NoArgv
    input,          \* the script's variable `input` (line 202)
    out,            \* the script's output sink (line 242), or Undefined
    options,        \* the options object handed to build
    instream,       \* build's list of resolved streams
    opened,         \* paths handed to fs.createReadStream so far
    currentStream,  \* build's index of the stream being drained (0-based)
    content,        \* content[i]: the rows the parser of stream i will produce
    parser,         \* parser[i]: "unpiped", "flowing", "errored", "finished"
    pos,            \* pos[i]: how many rows parser i has emitted
    map,            \* build's result object
    cbCalls,        \* the calls of build's callback, in order
    applied,        \* the rows whose 'data' handler has updated map, in order
    thrown,         \* the exception that left the program's code, or "none"
    written,        \* what the script has written to its output sink
    parseFailed,    \* the streams whose parser has emitted 'error'
    streamFailed,   \* the streams that have failed themselves
    kvRow, kvKey, kvValue   \* a row, and getKey's and getValue's results for it

vars == <<pc, argv, input, out, options, instream, opened, currentStream, content,
          parser, pos, map, cbCalls, applied, thrown, written, parseFailed, streamFailed,
          kvRow, kvKey, kvValue>>

-----------------------------------------------------------------------------
(* Bounds *)

\* The most rows one source holds.
MaxRows == 2

-----------------------------------------------------------------------------
(* JavaScript values *)

Undefined == [t |-> "undefined"]
Null == [t |-> "null"]
True == [t |-> "boolean"]
Str(s) == [t |-> "string", s |-> s]
Arr(a) == [t |-> "array", a |-> a]
ObjectPrototype == [t |-> "Object.prototype"]
Builtin == [t |-> "function"]
Obj(own) == [t |-> "object", own |-> own, proto |-> ObjectPrototype]
\* A byte stream: process.stdin, an in-memory Readable, an fs read stream, a stream
\* the caller passed, process.stdout or an fs write stream.
Stream(kind, of) == [t |-> "stream", kind |-> kind, of |-> of]
NotComputed == [t |-> "not computed"]

\* The property names every object inherits from Object.prototype.
ObjectPrototypeNames ==
    {<<"constructor">>, <<"toString">>, <<"valueOf">>, <<"hasOwnProperty">>}

\* The accessor through which an object's prototype is read and written.
ProtoName == <<"__proto__">>

\* !v
Falsy(v) == v \in {Undefined, Null, Str(<<>>)}

\* Array.isArray(v)
IsArray(v) == v.t = "array"

\* '' + v
StringOf(v) ==
    CASE v.t = "string" -> v.s
      [] v.t = "undefined" -> <<"undefined">>
      [] v.t = "null" -> <<"null">>
      [] v.t = "boolean" -> <<"true">>
      [] v.t = "function" -> <<"function () { [native code] }">>
      [] OTHER -> <<"[object Object]">>

RECURSIVE JsGet(_, _)
\* o[name]: an own property, else the prototype chain.
JsGet(o, name) ==
    IF name \in DOMAIN o.own THEN o.own[name]
    ELSE IF name = ProtoName THEN o.proto
    ELSE IF o.proto.t = "object" THEN JsGet(o.proto, name)
    ELSE IF name \in ObjectPrototypeNames THEN Builtin
    ELSE Undefined

\* o[name] = v: "__proto__" replaces the prototype when v is an object and is
\* ignored otherwise; every other name becomes an own property.
JsSet(o, name, v) ==
    IF name = ProtoName
    THEN IF v.t \in {"object", "array"} THEN [o EXCEPT !.proto = v] ELSE o
    ELSE [o EXCEPT !.own = (name :> v) @@ o.own]

\* a[i] for a JavaScript array a and a 0-based index i.
At(a, i) == IF i + 1 \in DOMAIN a.a THEN a.a[i + 1] ELSE Undefined

-----------------------------------------------------------------------------
(* build: the option defaults and the two pure functions *)

\* var keyDelimiter = options.keyDelimiter || '_'
KeyDelimiterOf(o) == IF Falsy(o.keyDelimiter) THEN Str(<<"_">>) ELSE o.keyDelimiter

\* keyColNames, wrapped in a list when it is not one.
KeyColNamesOf(o) == IF IsArray(o.keyColNames) THEN o.keyColNames ELSE Arr(<<o.keyColNames>>)

\* valColNames: [] when absent, wrapped in a list when it is not one.
ValColNamesOf(o) ==
    IF Falsy(o.valColNames) THEN Arr(<<>>)
    ELSE IF IsArray(o.valColNames) THEN o.valColNames
    ELSE Arr(<<o.valColNames>>)

RECURSIVE GetKeyLoop(_, _, _, _, _, _)
\* The forEach of getKey from the i-th name on, with the loop's key and delim.
GetKeyLoop(row, keyColNames, keyDelimiter, i, key, delim) ==
    IF i > Len(keyColNames.a) THEN key
    ELSE GetKeyLoop(row, keyColNames, keyDelimiter, i + 1,
                    key \o StringOf(delim) \o StringOf(JsGet(row, StringOf(keyColNames.a[i]))),
                    keyDelimiter)

GetKey(row, keyColNames, keyDelimiter) ==
    GetKeyLoop(row, keyColNames, keyDelimiter, 1, <<>>, Str(<<>>))

\* The sub-object v of getValue: v[colName] = row[colName] for each name in turn.
RECURSIVE GetValueLoop(_, _, _, _)
GetValueLoop(row, valColNames, i, v) ==
    IF i > Len(valColNames.a) THEN v
    ELSE GetValueLoop(row, valColNames, i + 1,
                      JsSet(v, StringOf(valColNames.a[i]),
                            JsGet(row, StringOf(valColNames.a[i]))))

\* getValue as it would be if several value columns stored the whole row.
GetValueWholeRow(row, valColNames, duplicateKeys) ==
    IF ~Falsy(duplicateKeys) THEN JsGet(row, StringOf(At(valColNames, 0)))
    ELSE IF Len(valColNames.a) = 1 THEN JsGet(row, StringOf(At(valColNames, 0)))
    ELSE row

GetValue(row, valColNames, duplicateKeys) ==
    IF ~Falsy(duplicateKeys) THEN JsGet(row, StringOf(At(valColNames, 0)))
    ELSE IF Len(valColNames.a) = 0 THEN row
    ELSE IF Len(valColNames.a) = 1 THEN JsGet(row, StringOf(At(valColNames, 0)))
    ELSE GetValueLoop(row, valColNames, 1, Obj(<<>>))

-----------------------------------------------------------------------------
(* build: the aggregation of one row *)

\* doNormal: map[key] = value
DoNormal(m, row, o) ==
    JsSet(m, GetKey(row, KeyColNamesOf(o), KeyDelimiterOf(o)),
          GetValue(row, ValColNamesOf(o), o.duplicateKeys))

\* doDupKeys reaches o.push(value) with an o that is no array: a TypeError.
DoDupKeysThrows(m, row, o) ==
    LET x == JsGet(m, GetKey(row, KeyColNamesOf(o), KeyDelimiterOf(o)))
    IN  ~Falsy(x) /\ x.t # "array"

\* doDupKeys when it does not throw: create [] on a falsy map[key], then push.
DoDupKeys(m, row, o) ==
    LET key == GetKey(row, KeyColNamesOf(o), KeyDelimiterOf(o))
        value == GetValue(row, ValColNamesOf(o), o.duplicateKeys)
        m1 == IF Falsy(JsGet(m, key)) THEN JsSet(m, key, Arr(<<>>)) ELSE m
    IN  [m1 EXCEPT !.own[key] = Arr(Append(@.a, value))]

-----------------------------------------------------------------------------
(* build: the input sources *)

ProcessStdin == Stream("stdin", <<>>)

\* resolveStream: a string with a newline is the CSV text itself, any other
\* string is a file name, anything else is taken to be a stream already.
ResolveStream(in) ==
    IF in.t = "string"
    THEN IF \E i \in DOMAIN in.s : in.s[i] = "\n"
         THEN Stream("readable", in.s)
         ELSE Stream("file", in.s)
    ELSE in

\* The instream list build makes of options.input.
Instream(o) ==
    IF Falsy(o.input) THEN <<ProcessStdin>>
    ELSE LET list == IF IsArray(o.input) THEN o.input.a ELSE <<o.input>>
         IN  [i \in DOMAIN list |-> ResolveStream(list[i])]

\* build rewrites a lone options.input into a list of one (line 93).
NormalizedInput(o) ==
    IF ~Falsy(o.input) /\ ~IsArray(o.input) THEN [o EXCEPT !.input = Arr(<<o.input>>)] ELSE o

\* The files fs.createReadStream has been asked to open for these streams.
OpenedBy(streams) ==
    {streams[i].of : i \in {j \in DOMAIN streams : streams[j].kind = "file"}}

-----------------------------------------------------------------------------
(* The command line *)

NoArgv == [t |-> "no command line"]
Stdout == Stream("stdout", <<>>)

RECURSIVE SplitLoop(_, _, _, _)
\* s.split(',') from token i on: cur is the piece being read, acc the pieces read.
SplitLoop(s, i, cur, acc) ==
    IF i > Len(s) THEN Append(acc, Str(cur))
    ELSE IF s[i] = "," THEN SplitLoop(s, i + 1, <<>>, Append(acc, Str(cur)))
    ELSE SplitLoop(s, i + 1, Append(cur, s[i]), acc)

\* list: val.split(',')
List(val) == Arr(SplitLoop(val.s, 1, <<>>, <<>>))

\* An option that takes a comma-delimited list: absent, or list(its text).
ListOption(val) == IF val = Undefined THEN Undefined ELSE List(val)

\* process.argv.length === 2: the program was given no argument at all.
NoArguments(a) == \A f \in DOMAIN a : a[f] = Undefined

\* The options object the script builds from the parsed command line (232-237).
CliOptions(a) ==
    [keyColNames |-> ListOption(a.k), valColNames |-> ListOption(a.v),
     input |-> ListOption(a.i), duplicateKeys |-> a.d, keyDelimiter |-> a.D]

\* JSON.stringify of a stored value: undefined members are left out of an
\* object and become null in a list.
JsonValue(v) ==
    CASE v.t = "array" -> Arr([i \in DOMAIN v.a |-> IF v.a[i] = Undefined THEN Null ELSE v.a[i]])
      [] v.t = "object" ->
            [t |-> "json", members |-> [k \in {n \in DOMAIN v.own : v.own[n] # Undefined} |-> v.own[k]]]
      [] OTHER -> v

\* JSON.stringify(map, null, 3): the own properties of map, the undefined ones left out.
Stringify(m) ==
    [t |-> "json",
     members |-> [k \in {n \in DOMAIN m.own : m.own[n] # Undefined} |-> JsonValue(m.own[k])]]

-----------------------------------------------------------------------------
(* The model's inputs *)

Row(name, sport) == Obj((<<"Name">> :> Str(<<name>>)) @@ (<<"Sport">> :> Str(<<sport>>)))

\* The rows a source may hold.
BuildRows ==
    {Row("Joe", "Soccer"), Row("Joe", "Boxing"), Row("Sally", "Rugby"),
     Row("__proto__", "Soccer")}

\* The row sequences a parser may produce for one source.
Contents == UNION {[1..n -> BuildRows] : n \in 0..MaxRows}

\* A CSV text passed inline (any text with a newline in it).
InlineText == Str(<<"Name,Sport", "\n", "Joe,Soccer">>)

ApiInputs ==
    {Undefined, Str(<<"a.csv">>), InlineText, Stream("given", <<"s">>), Arr(<<>>),
     Arr(<<Str(<<"a.csv">>), Str(<<"b.csv">>)>>)}

\* The options a caller of build may pass.
ApiOptions ==
    [keyColNames : {Undefined, Str(<<"Name">>)}, valColNames : {Undefined, Str(<<"Sport">>)},
     input : ApiInputs, duplicateKeys : {Undefined, True}, keyDelimiter : {Undefined}]

Arg(k, v, i, o, d, D, file) == [k |-> k, v |-> v, i |-> i, o |-> o, d |-> d, D |-> D, file |-> file]

\* The command lines the script may be run with.
Argvs ==
    LET U == Undefined
        name == Str(<<"Name">>)
        sport == Str(<<"Sport">>)
        a == Str(<<"a.csv">>)
        ab == Str(<<"a.csv", ",", "b.csv">>)
        x == Str(<<"x.csv">>)
    IN  {Arg(U, U, U, U, U, U, U),
         Arg(name, sport, U, U, U, U, U),
         Arg(name, sport, a, U, U, U, U),
         Arg(name, sport, U, U, U, U, x),
         Arg(name, sport, a, U, U, U, x),
         Arg(name, sport, ab, U, True, U, U),
         Arg(U, U, a, U, U, U, U),
         Arg(U, U, U, U, U, U, x),
         Arg(Str(<<"Name", ",", "Sport">>), U, a, Str(<<"out.json">>), U, Str(<<"-">>), U)}

\* The row with the given cells, a function from column names to texts.
KvRow(cells) == Obj([c \in DOMAIN cells |-> Str(<<cells[c]>>)])

\* The rows getKey and getValue are applied to.
KvRows ==
    {KvRow((<<"First">> :> "Bill") @@ (<<"Last">> :> "Smith") @@ (<<"SSN">> :> "111-22-3333")
           @@ (<<"Birthplace">> :> "Rochester NY")),
     KvRow((<<"First">> :> "Sue") @@ (<<"Last">> :> "Stork") @@ (<<"SSN">> :> "444-55-6666")),
     KvRow((<<"First">> :> "Bill") @@ (<<"SSN">> :> "111-22-3333"))}

\* The options getKey and getValue are applied under.
KvOptions ==
    LET col(c) == Str(<<c>>)
    IN  [keyColNames : {col("First"), Arr(<<col("First")>>), Arr(<<col("First"), col("Last")>>),
                        Arr(<<col("Last"), col("First"), col("SSN")>>)},
         valColNames : {Undefined, Str(<<>>), Arr(<<>>), col("SSN"), Arr(<<col("SSN")>>),
                        Arr(<<col("SSN"), col("Birthplace")>>),
                        Arr(<<col("Birthplace"), col("SSN"), col("Last")>>),
                        Arr(<<col("SSN"), col("SSN")>>)},
         input : {Undefined},
         duplicateKeys : {Undefined, True},
         keyDelimiter : {Undefined, Str(<<>>), Str(<<"-">>), Str(<<"_">>)}]

-----------------------------------------------------------------------------
(* build and its event handlers *)

\* The callback of build is called with err ("none" for null) and the map m,
\* n rows having been applied.  A caller of the library only sees the call;
\* the script's callback (248-254) throws err, or writes the map to its sink.
Callback(err, m, n, sink) ==
    /\ cbCalls' = Append(cbCalls, [err |-> err, applied |-> n])
    /\ IF argv = NoArgv THEN UNCHANGED <<thrown, written>>
       ELSE IF err # "none" THEN thrown' = "callback" /\ UNCHANGED written
       ELSE /\ written' = Append(written, [sink |-> sink, text |-> Stringify(m)])
            /\ UNCHANGED thrown

\* doIt with currentStream = cs: hand the map over when every stream is done,
\* else pipe stream cs into a new parser (whose rows the environment fixes).
DoIt(cs, streams, ps, cnt, m, n, sink) ==
    IF cs = Len(streams)
    THEN /\ Callback("none", m, n, sink)
         /\ parser' = ps
         /\ content' = cnt
    ELSE /\ \E c \in Contents : content' = [cnt EXCEPT ![cs + 1] = c]
         /\ parser' = [ps EXCEPT ![cs + 1] = "flowing"]
         /\ UNCHANGED <<cbCalls, thrown, written>>

\* build(o, cb), up to its return: defaults, resolution of the inputs, the check
\* of keyColNames, and the first doIt.
Build(o, sink) ==
    /\ options' = NormalizedInput(o)
    /\ instream' = Instream(o)
    /\ opened' = OpenedBy(Instream(o))
    /\ map' = Obj(<<>>)
    /\ IF Falsy(o.keyColNames)
       THEN /\ thrown' = "config"
            /\ pc' = "done"
            /\ UNCHANGED <<currentStream, content, parser, pos, cbCalls, written>>
       ELSE /\ pc' = "running"
            /\ currentStream' = 0
            /\ pos' = [i \in DOMAIN Instream(o) |-> 0]
            /\ DoIt(0, Instream(o), [i \in DOMAIN Instream(o) |-> "unpiped"],
                    [i \in DOMAIN Instream(o) |-> <<>>], Obj(<<>>), 0, sink)

\* A program that required the module calls build with its options.
ApiBuild ==
    /\ pc = "require"
    /\ Build(options, Undefined)
    /\ UNCHANGED <<argv, input, out, applied, parseFailed, streamFailed,
                   kvRow, kvKey, kvValue>>

\* The script, from the parse of the command line to the return of build.
CliMain ==
    /\ pc = "main"
    /\ input' = IF argv.file = Undefined THEN Null ELSE argv.file
    /\ IF NoArguments(argv)
       THEN /\ pc' = "done"
            /\ UNCHANGED <<out, options, instream, opened, currentStream, content, parser,
                           pos, map, cbCalls, thrown, written>>
       ELSE /\ out' = IF argv.o = Undefined THEN Stdout ELSE Stream("writefile", argv.o.s)
            /\ Build(CliOptions(argv), out')
    /\ UNCHANGED <<argv, applied, parseFailed, streamFailed,
                   kvRow, kvKey, kvValue>>

\* Parser i emits 'data' with its next row.
ParserData(i) ==
    /\ pc = "running" /\ thrown = "none"
    /\ parser[i] \in {"flowing", "errored"}
    /\ pos[i] < Len(content[i])
    /\ pos' = [pos EXCEPT ![i] = @ + 1]
    /\ LET row == content[i][pos[i] + 1]
       IN  IF ~Falsy(options.duplicateKeys)
           THEN IF DoDupKeysThrows(map, row, options)
                THEN thrown' = "TypeError" /\ UNCHANGED <<map, applied>>
                ELSE /\ map' = DoDupKeys(map, row, options)
                     /\ applied' = Append(applied, [src |-> i, idx |-> pos[i] + 1])
                     /\ UNCHANGED thrown
           ELSE /\ map' = DoNormal(map, row, options)
                /\ applied' = Append(applied, [src |-> i, idx |-> pos[i] + 1])
                /\ UNCHANGED thrown
    /\ UNCHANGED <<pc, argv, input, out, options, instream, opened, currentStream, content,
                   parser, cbCalls, written, parseFailed, streamFailed,
                   kvRow, kvKey, kvValue>>

\* The 'error' handler as it would be if it skipped the bad source and went on
\* to the next one.
ParserErrorSkips(i) ==
    /\ pc = "running" /\ thrown = "none"
    /\ parser[i] = "flowing"
    /\ parseFailed' = parseFailed \cup {i}
    /\ currentStream' = currentStream + 1
    /\ IF currentStream + 1 < Len(instream)
       THEN /\ parser' = [parser EXCEPT ![i] = "errored", ![currentStream + 2] = "flowing"]
            /\ \E c \in Contents : content' = [content EXCEPT ![currentStream + 2] = c]
       ELSE /\ parser' = [parser EXCEPT ![i] = "errored"]
            /\ content' = content
    /\ Callback("parse error", map, Len(applied), out)
    /\ UNCHANGED <<pc, argv, input, out, options, instream, opened, pos, map, applied,
                   streamFailed, kvRow, kvKey, kvValue>>

\* Parser i emits 'error'.
ParserError(i) ==
    /\ pc = "running" /\ thrown = "none"
    /\ parser[i] = "flowing"
    /\ parser' = [parser EXCEPT ![i] = "errored"]
    /\ parseFailed' = parseFailed \cup {i}
    /\ Callback("parse error", map, Len(applied), out)
    /\ UNCHANGED <<pc, argv, input, out, options, instream, opened, currentStream, content,
                   pos, map, applied, streamFailed,
                   kvRow, kvKey, kvValue>>

\* Parser i emits 'finish': after its last row, or after its error.
ParserFinish(i) ==
    /\ pc = "running" /\ thrown = "none"
    /\ \/ parser[i] = "flowing" /\ pos[i] = Len(content[i])
       \/ parser[i] = "errored"
    /\ currentStream' = currentStream + 1
    /\ DoIt(currentStream + 1, instream, [parser EXCEPT ![i] = "finished"], content,
            map, Len(applied), out)
    /\ UNCHANGED <<pc, argv, input, out, options, instream, opened, pos, map, applied,
                   parseFailed, streamFailed,
                   kvRow, kvKey, kvValue>>

\* The byte stream i fails.  No handler listens for a stream's 'error', so the
\* event is thrown; the parser fed by the stream is never ended.
StreamFail(i) ==
    /\ pc = "running" /\ thrown = "none"
    /\ instream[i].kind \in {"stdin", "file", "given"}
    /\ parser[i] \in {"unpiped", "flowing"}
    /\ thrown' = "stream"
    /\ streamFailed' = streamFailed \cup {i}
    /\ UNCHANGED <<pc, argv, input, out, options, instream, opened, currentStream, content,
                   parser, pos, map, cbCalls, applied, written, parseFailed,
                   kvRow, kvKey, kvValue>>

-----------------------------------------------------------------------------
(* getKey and getValue applied alone *)

KvGetKey ==
    /\ pc = "kv" /\ kvKey = NotComputed
    /\ kvKey' = Str(GetKey(kvRow, KeyColNamesOf(options), KeyDelimiterOf(options)))
    /\ UNCHANGED <<pc, argv, input, out, options, instream, opened, currentStream, content,
                   parser, pos, map, cbCalls, applied, thrown, written,
                   parseFailed, streamFailed, kvRow, kvValue>>

KvGetValue ==
    /\ pc = "kv" /\ kvValue = NotComputed
    /\ kvValue' = GetValue(kvRow, ValColNamesOf(options), options.duplicateKeys)
    /\ UNCHANGED <<pc, argv, input, out, options, instream, opened, currentStream, content,
                   parser, pos, map, cbCalls, applied, thrown, written,
                   parseFailed, streamFailed, kvRow, kvKey>>

-----------------------------------------------------------------------------
(* Specifications *)

\* What every run starts from, but for the entry point and its inputs.
Blank ==
    /\ out = Undefined
    /\ instream = <<>> /\ opened = {}
    /\ currentStream = 0
    /\ content = <<>> /\ parser = <<>> /\ pos = <<>>
    /\ map = Obj(<<>>)
    /\ cbCalls = <<>> /\ applied = <<>> /\ thrown = "none" /\ written = <<>>
    /\ parseFailed = {} /\ streamFailed = {}
    /\ kvKey = NotComputed /\ kvValue = NotComputed

\* The file is run as a script, or required and build called.
Init ==
    /\ Blank
    /\ kvRow = Undefined
    /\ \/ pc = "main" /\ argv \in Argvs /\ input = Null /\ options = Undefined
       \/ pc = "require" /\ argv = NoArgv /\ input = Undefined /\ options \in ApiOptions

Next ==
    \/ CliMain
    \/ ApiBuild
    \/ \E i \in DOMAIN parser : ParserData(i)
    \/ \E i \in DOMAIN parser : ParserError(i)
    \/ \E i \in DOMAIN parser : ParserFinish(i)
    \/ \E i \in DOMAIN parser : StreamFail(i)

Spec == Init /\ [][Next]_vars

InitKV ==
    /\ Blank
    /\ pc = "kv" /\ argv = NoArgv /\ input = Undefined
    /\ options \in KvOptions
    /\ kvRow \in KvRows

NextKV == KvGetKey \/ KvGetValue

SpecKV == InitKV /\ [][NextKV]_vars

-----------------------------------------------------------------------------
(* What the claims speak of *)

RECURSIVE ArrivedUpTo(_)
\* The rows the parsers of streams 1..n have emitted, in order of arrival.
ArrivedUpTo(n) ==
    IF n = 0 THEN <<>> ELSE ArrivedUpTo(n - 1) \o SubSeq(content[n], 1, pos[n])

Arrived == ArrivedUpTo(Len(parser))

\* The composite key and the projected value of a row under the build's options.
KeyOfRow(row) == GetKey(row, KeyColNamesOf(options), KeyDelimiterOf(options))
ValueOfRow(row) == GetValue(row, ValColNamesOf(options), options.duplicateKeys)

RECURSIVE ValuesFor(_, _)
\* The values of the rows of `rows` that have key k, in order.
ValuesFor(rows, k) ==
    IF rows = <<>> THEN <<>>
    ELSE IF KeyOfRow(Head(rows)) = k
         THEN <<ValueOfRow(Head(rows))>> \o ValuesFor(Tail(rows), k)
         ELSE ValuesFor(Tail(rows), k)

\* The number of rows of all the sources together.
RECURSIVE TotalRows(_)
TotalRows(n) == IF n = 0 THEN 0 ELSE TotalRows(n - 1) + Len(content[n])

\* Every source has completed or failed, or was never begun because an earlier
\* one failed.
Settled ==
    \A i \in DOMAIN parser :
        \/ parser[i] = "finished"
        \/ i \in parseFailed \cup streamFailed
        \/ parser[i] = "unpiped" /\ \E j \in 1..(i - 1) : j \in parseFailed \cup streamFailed

RECURSIVE Join(_, _)
\* The strings of `parts` with d between each two neighbours.
Join(parts, d) ==
    IF parts = <<>> THEN <<>>
    ELSE IF Len(parts) = 1 THEN parts[1]
    ELSE parts[1] \o d \o Join(Tail(parts), d)

\* The column names a caller listed: a list as it is, a lone name as a list of one,
\* nothing (absent, or an empty name) as the empty list.
Listed(v) == IF IsArray(v) THEN [i \in DOMAIN v.a |-> v.a[i].s]
             ELSE IF v.t = "string" /\ v.s # <<>> THEN <<v.s>> ELSE <<>>

\* The row's value for a column, undefined when the row has no such column.
Cell(row, col) == IF col \in DOMAIN row.own THEN row.own[col] ELSE Undefined

-----------------------------------------------------------------------------
(* The claims *)

\* C1: when build is called without keyColNames, the configuration error is raised
\* before any input source is opened, resolved or read, whatever options.input is.
C1_ConfigErrorBeforeAnySource ==
    thrown = "config" => instream = <<>> /\ opened = {}

\* C2: once the parser of source n has reported a parse error, the failure has been
\* passed to the callback, no source after n is ever started and no row of a later
\* source is ever applied, whatever the parser emits after the error.
C2_ParseErrorAborts ==
    \A n \in parseFailed :
        /\ \E c \in DOMAIN cbCalls : cbCalls[c].err = "parse error"
        /\ \A m \in DOMAIN parser : m > n => parser[m] = "unpiped"
        /\ \A a \in DOMAIN applied : applied[a].src <= n

\* C3: the callback is never called twice, and a build that passed the validation
\* and whose sources have each completed or failed has called it exactly once:
\* with the failure if a source failed, with the map otherwise.
C3_CallbackExactlyOnce ==
    /\ Len(cbCalls) <= 1
    /\ (pc = "running" /\ Settled) =>
          /\ Len(cbCalls) = 1
          /\ cbCalls[1].err = "none" <=> parseFailed \cup streamFailed = {}

\* C4: sources are drained one at a time in the order given: a source is begun only
\* when every earlier one has signalled completion, at most one parser is at work,
\* and the rows applied to the map are in source order, then row order.
C4_OneSourceAtATime ==
    /\ \A i \in DOMAIN parser :
          parser[i] # "unpiped" => \A j \in 1..(i - 1) : parser[j] = "finished"
    /\ Cardinality({i \in DOMAIN parser : parser[i] \in {"flowing", "errored"}}) <= 1
    /\ \A a, b \in DOMAIN applied :
          a < b => \/ applied[a].src < applied[b].src
                   \/ applied[a].src = applied[b].src /\ applied[a].idx < applied[b].idx

\* C4's case: rows of a first and of a second source have been applied.
C4_Witness ==
    /\ Len(instream) = 2
    /\ \E a, b \in DOMAIN applied : applied[a].src = 1 /\ applied[b].src = 2

\* C5: when the callback is called with success, every row of every source has been
\* applied to the map, none is applied afterwards, and the script has written the
\* map once, with all the rows in it.
C5_HandoffComplete ==
    \A c \in DOMAIN cbCalls :
        cbCalls[c].err = "none" =>
            /\ cbCalls[c].applied = TotalRows(Len(parser))
            /\ Len(applied) = cbCalls[c].applied
            /\ argv # NoArgv => written = <<[sink |-> out, text |-> Stringify(map)]>>

\* C6: in duplicate-keys mode the map sends each composite key that has occurred to
\* the list of the first value column's values of exactly the rows with that key,
\* in order of arrival (so every entry is a non-empty list and the lengths sum to
\* the number of rows), and it has no other entry.
C6_DuplicateKeysLists ==
    (pc = "running" /\ ~Falsy(options.duplicateKeys)) =>
        LET keys == {KeyOfRow(Arrived[j]) : j \in DOMAIN Arrived}
        IN  /\ DOMAIN map.own = keys
            /\ \A k \in keys : map.own[k] = Arr(ValuesFor(Arrived, k))

\* C7: in overwrite mode the map has exactly the composite keys that have occurred,
\* each with the projected value of the last row that had it, and no row raises
\* an error.
C7_OverwriteLastWins ==
    (pc = "running" /\ Falsy(options.duplicateKeys)) =>
        LET keys == {KeyOfRow(Arrived[j]) : j \in DOMAIN Arrived}
        IN  /\ thrown # "TypeError"
            /\ DOMAIN map.own = keys
            /\ \A k \in keys :
                  LET vs == ValuesFor(Arrived, k) IN map.own[k] = vs[Len(vs)]

\* C8: the composite key is the row's values for the key columns, in listed order,
\* joined by the delimiter of the options when one is supplied and by "_" only when
\* none is; a column the row lacks contributes "undefined".
C8_KeyJoinedByDelimiter ==
    (pc = "kv" /\ kvKey # NotComputed) =>
        LET cols == Listed(options.keyColNames)
            d == IF options.keyDelimiter.t = "string" THEN options.keyDelimiter.s ELSE <<"_">>
        IN  kvKey = Str(Join([i \in DOMAIN cols |-> StringOf(Cell(kvRow, cols[i]))], d))

\* C9: outside duplicate-keys mode the value of a row is the whole row when no
\* value column is given, the row's value for the column when one is given, and
\* otherwise a new object with exactly the listed columns, each with the row's value;
\* computing it changes neither the row nor the map.
C9_ValueProjection ==
    (pc = "kv" /\ kvValue # NotComputed /\ Falsy(options.duplicateKeys)) =>
        LET cols == Listed(options.valColNames)
        IN  /\ kvRow \in KvRows /\ map = Obj(<<>>)
            /\ Len(cols) = 0 => kvValue = kvRow
            /\ Len(cols) = 1 => kvValue = Cell(kvRow, cols[1])
            /\ Len(cols) > 1 =>
                  /\ kvValue.t = "object"
                  /\ DOMAIN kvValue.own = {cols[i] : i \in DOMAIN cols}
                  /\ \A c \in DOMAIN kvValue.own : kvValue.own[c] = Cell(kvRow, c)

\* C9's case: several value columns, one of them missing from the row, projected
\* from a row that has a column not listed.
C9_Witness ==
    /\ pc = "kv" /\ kvValue # NotComputed /\ Falsy(options.duplicateKeys)
    /\ Len(Listed(options.valColNames)) = 3
    /\ <<"Birthplace">> \notin DOMAIN kvRow.own
    /\ <<"First">> \in DOMAIN kvRow.own

\* C10: when the script is given a positional input file and no --input, the
\* options passed to build name that file as the one source, and build reads it.
C10_PositionalInputIsTheSource ==
    (argv # NoArgv /\ pc # "main" /\ argv.file # Undefined /\ argv.i = Undefined) =>
        /\ options.input \in {argv.file, Arr(<<argv.file>>)}
        /\ instream = <<Stream("file", argv.file.s)>>

-----------------------------------------------------------------------------
(* What does hold where a claim above is refuted (each checked by TLC as an    *)
(* invariant of the specification named)                                       *)

\* Spec.  A build without keyColNames pipes no stream, applies no row and does not
\* call the callback.
ConfigErrorBeforeAnyRead ==
    thrown = "config" => parser = <<>> /\ applied = <<>> /\ cbCalls = <<>>

\* Spec.  A parse error is passed to the callback.
ParseErrorReachesCallback ==
    \A n \in parseFailed : \E c \in DOMAIN cbCalls : cbCalls[c].err = "parse error"

\* Spec.  While no parser has reported an error and no stream has failed, the
\* callback is called at most once, and exactly once, with the map, when every
\* source has completed.
CallbackOnceWithoutFailure ==
    parseFailed \cup streamFailed = {} => C3_CallbackExactlyOnce

\* Spec.  While no parser has reported an error, a handoff is complete.
HandoffCompleteWithoutParseError ==
    parseFailed = {} => C5_HandoffComplete

\* No row so far has a key that names a member of Object.prototype.
OrdinaryKeys ==
    \A j \in DOMAIN Arrived :
        KeyOfRow(Arrived[j]) \notin ObjectPrototypeNames \cup {ProtoName}

\* Spec.  Duplicate-keys mode is as claimed for ordinary keys.
DuplicateKeysListsForOrdinaryKeys ==
    OrdinaryKeys => C6_DuplicateKeysLists

\* Spec.  Overwrite mode is as claimed for ordinary keys.
OverwriteLastWinsForOrdinaryKeys ==
    OrdinaryKeys => C7_OverwriteLastWins

\* SpecKV.  The key is the claimed join for every delimiter but the empty string.
KeyJoinedByNonEmptyDelimiter ==
    options.keyDelimiter # Str(<<>>) => C8_KeyJoinedByDelimiter

\* Spec.  The script passes --input, split at the commas, as options.input.
OptionInputIsTheSource ==
    (argv # NoArgv /\ pc # "main" /\ argv.i # Undefined) =>
        /\ options.input = List(argv.i)
        /\ instream = [j \in DOMAIN List(argv.i).a |-> Stream("file", List(argv.i).a[j].s)]

=============================================================================
